---- MODULE Spec2Model ----
(***************************************************************************)
(* Datasheet Explorer (PyQt6 + QtPdf): the asynchronous document-load      *)
(* handshake, the per-document note store and the page status line, for    *)
(* the two program versions of the repository:                             *)
(*   "dark"    src/DatasheetVisualizer.py   (version 5, dark mode)         *)
(*   "classic" src/DatasheeetVisualizer.py  (the earlier version)          *)
(* Every handler is an operator from the state before it runs to the       *)
(* state after it returns; an action commits one handler call.             *)
(***************************************************************************)
EXTENDS Integers, Sequences, FiniteSets, TLC

VARIABLES
    build,            \* which program version runs
    root_folder,      \* MainWindow.root_folder ("" is <<>>)
    cfg,              \* MainWindow.cfg: root_folder entry, and whether cfg["notes"] is notes_store
    notes_store,      \* MainWindow.notes_store: dict key -> list of notes
    disk,             \* the config file as last written
    pdf_doc,          \* MainWindow.pdf_doc: handle, 0 is None
    current_pdf_path, \* MainWindow.current_pdf_path, <<>> is None
    pending_doc,      \* MainWindow._pending_doc: handle, 0 is None
    pending_path,     \* MainWindow._pending_path, <<>> is None
    elapsed,          \* monotonic() - _pending_start in ms, sampled when the load timer fires
    load_timer,       \* MainWindow._load_timer is active
    docs,             \* the QPdfDocument objects created so far, by handle
    notes_list,       \* MainWindow.notes_list: the rows shown
    currentRow,       \* notes_list.currentRow(), -1 when no row is current
    status_label,     \* MainWindow.status_label text
    vsb,              \* pdf_view.verticalScrollBar(): value and maximum
    zoom_mode,        \* pdf_view.zoomMode()
    cursor,           \* depth of QApplication's override-cursor stack
    dialog,           \* the message box the last handler showed
    raised,           \* the exception that left the last handler, "none" if it returned
    ev,               \* history: what the last handler did
    superseded,       \* history: handles that were pending when a later open_pdf arrived
    owners            \* history: for each stored note, the document that was open when it was added

vars == <<build, root_folder, cfg, notes_store, disk, pdf_doc, current_pdf_path,
          pending_doc, pending_path, elapsed, load_timer, docs, notes_list,
          currentRow, status_label, vsb, zoom_mode, cursor, dialog, raised, ev,
          superseded, owners>>

-----------------------------------------------------------------------------
(* Bounds of the model *)

\* QPdfDocument objects created in one run
MaxOpens == 2
\* ms between _pending_start = monotonic() and _load_timer.start() in open_pdf
MaxLag == 1
\* notes held by the store in one run
MaxNotes == 2
\* polls after a request during which the user and the toolkit may act; they
\* may act again in the last interval before the deadline
EarlyPolls == 2

(* Program constants *)

LOAD_TIMEOUT_S == 10
POLL_INTERVAL_MS == 100
LOAD_TIMEOUT_S_classic == 12
POLL_INTERVAL_MS_classic == 150
\* NoteDialog: self.max_page = max_page or 99999
DEFAULT_MAX_PAGE == 99999

Builds == {"dark", "classic"}

-----------------------------------------------------------------------------
(* Paths.  A path is the sequence of its components; absolute paths start   *)
(* with the drive/root component "/".                                       *)

None == <<>>
Roots == { <<"/", "r1">>, <<"/", "r2">> }
Files == { <<"/", "r1", "a.pdf">>, <<"/", "r2", "a.pdf">> }

\* pageCount() of the document a file holds
FilePages(path) == IF path = <<"/", "r1", "a.pdf">> THEN 10 ELSE 42

basename(path) == IF path = None THEN "" ELSE path[Len(path)]

RECURSIVE CommonPrefixLen(_, _)
CommonPrefixLen(a, b) ==
    IF a = <<>> \/ b = <<>> \/ Head(a) # Head(b) THEN 0
    ELSE 1 + CommonPrefixLen(Tail(a), Tail(b))

RECURSIVE Pardirs(_)
Pardirs(n) == IF n <= 0 THEN <<>> ELSE <<"..">> \o Pardirs(n - 1)

\* os.path.relpath raises ValueError when path and start are on different drives
relpath_raises(path, start) == path[1] # start[1]

\* os.path.relpath(path, start) when it returns
relpath(path, start) ==
    LET i == CommonPrefixLen(path, start)
        rel == Pardirs(Len(start) - i) \o SubSeq(path, i + 1, Len(path))
    IN  IF rel = <<>> THEN <<".">> ELSE rel

\* MainWindow._get_store_key (dark)
get_store_key(path, root) ==
    IF path = None \/ root = None THEN path
    ELSE IF relpath_raises(path, root) THEN path
    ELSE relpath(path, root)

-----------------------------------------------------------------------------
(* Notes.  A text is the sequence of its characters.                        *)

Whitespace == {" "}

RECURSIVE lstrip(_)
lstrip(t) == IF t # <<>> /\ Head(t) \in Whitespace THEN lstrip(Tail(t)) ELSE t

RECURSIVE rstrip(_)
rstrip(t) ==
    IF t # <<>> /\ t[Len(t)] \in Whitespace THEN rstrip(SubSeq(t, 1, Len(t) - 1)) ELSE t

\* str.strip()
strip(t) == rstrip(lstrip(t))

RECURSIVE str(_)
str(t) == IF t = <<>> THEN "" ELSE Head(t) \o str(Tail(t))

Min(a, b) == IF a < b THEN a ELSE b
Max(a, b) == IF a > b THEN a ELSE b

\* QSpinBox.setValue / typing into the box: the value is kept within [minimum, maximum]
QSpinBox_value(v, minimum, maximum) == Max(minimum, Min(v, maximum))

NoteDialog_ignores_max_page(max_page) == DEFAULT_MAX_PAGE

\* NoteDialog.__init__: self.max_page = max_page or 99999
NoteDialog_max_page(max_page) == IF max_page = 0 THEN DEFAULT_MAX_PAGE ELSE max_page

\* NoteDialog.accept: the result of a dialog opened with max_page, in which the
\* user asked for page p and typed text t, and pressed Ok
NoteDialog_accept(p, t, max_page) ==
    LET mp == NoteDialog_max_page(max_page)
        spin == QSpinBox_value(p, 1, mp)
    IN  [text |-> strip(t), page |-> Max(1, Min(spin, mp))]

\* the row text load_notes_for_current_pdf adds for note n
row_text(b, n) ==
    IF b = "dark" THEN "[P." \o ToString(n.page) \o "] " \o str(n.text)
    ELSE "[p" \o ToString(n.page) \o "] " \o str(n.text)

\* dict operations on notes_store
dict_get(d, k, default) == IF k \in DOMAIN d THEN d[k] ELSE default
dict_set(d, k, v) == [x \in DOMAIN d \cup {k} |-> IF x = k THEN v ELSE d[x]]
dict_del(d, k) == [x \in DOMAIN d \ {k} |-> d[x]]
EmptyDict == [x \in {} |-> <<>>]
list_pop(l, i) == SubSeq(l, 1, i) \o SubSeq(l, i + 2, Len(l))
NotesIn(d) == LET RECURSIVE sum(_)
                  sum(K) == IF K = {} THEN 0
                            ELSE LET k == CHOOSE x \in K : TRUE
                                 IN  Len(d[k]) + sum(K \ {k})
              IN  sum(DOMAIN d)

-----------------------------------------------------------------------------
(* The program state as one record, so that a handler can call another.     *)

State ==
    [build |-> build, root_folder |-> root_folder, cfg |-> cfg,
     notes_store |-> notes_store, disk |-> disk, pdf_doc |-> pdf_doc,
     current_pdf_path |-> current_pdf_path, pending_doc |-> pending_doc,
     pending_path |-> pending_path, elapsed |-> elapsed, load_timer |-> load_timer,
     docs |-> docs, notes_list |-> notes_list, currentRow |-> currentRow,
     status_label |-> status_label, vsb |-> vsb, zoom_mode |-> zoom_mode,
     cursor |-> cursor, dialog |-> dialog, raised |-> raised, ev |-> ev,
     superseded |-> superseded]

\* add_note appends a note under s.ev.key while s.current_pdf_path is open;
\* remove_note pops the note in row s.ev.row of s.ev.key
NextOwners(s) ==
    LET e == s.ev
    IN  IF e.outcome = "added"
        THEN dict_set(owners, e.key,
                      Append(dict_get(owners, e.key, <<>>),
                             [path |-> s.current_pdf_path]))
        ELSE IF e.outcome = "removed"
        THEN (IF Len(owners[e.key]) = 1 THEN dict_del(owners, e.key)
              ELSE dict_set(owners, e.key, list_pop(owners[e.key], e.row)))
        ELSE owners

Commit(s) ==
    /\ build' = s.build
    /\ root_folder' = s.root_folder
    /\ cfg' = s.cfg
    /\ notes_store' = s.notes_store
    /\ disk' = s.disk
    /\ pdf_doc' = s.pdf_doc
    /\ current_pdf_path' = s.current_pdf_path
    /\ pending_doc' = s.pending_doc
    /\ pending_path' = s.pending_path
    /\ elapsed' = s.elapsed
    /\ load_timer' = s.load_timer
    /\ docs' = s.docs
    /\ notes_list' = s.notes_list
    /\ currentRow' = s.currentRow
    /\ status_label' = s.status_label
    /\ vsb' = s.vsb
    /\ zoom_mode' = s.zoom_mode
    /\ cursor' = s.cursor
    /\ dialog' = s.dialog
    /\ raised' = s.raised
    /\ ev' = s.ev
    /\ superseded' = s.superseded
    /\ owners' = NextOwners(s)

\* status_label texts and message boxes, by their parts
Label(kind, page, total, name) == [kind |-> kind, page |-> page, total |-> total, name |-> name]
Message(kind, bound, path) == [kind |-> kind, bound |-> bound, path |-> path]
NoMessage == Message("none", 0, None)

\* history record of one handler call: what it did to which handle, the status
\* it saw, the elapsed time a poll saw, and the current document before it ran
\* history record of one handler call: what it did, to which handle, the status
\* it saw there and, for a timeout, the elapsed time it saw; for a note handler
\* the key and row it addressed and the page and text the user gave the dialog
Event(op, outcome, h, status, ms) ==
    [op |-> op, outcome |-> outcome, doc |-> h, status |-> status, elapsed |-> ms,
     key |-> None, row |-> -1, page |-> 0, text |-> <<>>]

NoteEvent(op, outcome, key, row, p, t) ==
    [Event(op, outcome, 0, "Null", 0) EXCEPT !.key = key, !.row = row, !.page = p, !.text = t]

\* QPdfDocument(self): a new object, not yet loading
NewDoc(path) == [path |-> path, status |-> "Null", deleted |-> FALSE]

\* QPdfDocument.pageCount(): 0 until the document is ready
pageCount(s, h) == IF s.docs[h].status = "Ready" THEN FilePages(s.docs[h].path) ELSE 0

deleteLater_forgotten(s, h) == s

\* QObject.deleteLater()
deleteLater(s, h) == [s EXCEPT !.docs[h].deleted = TRUE]

\* pdf_view.setDocument(doc): the view shows the top of the document; the scroll
\* range is the view's to choose
ViewMaximum(pages) == IF pages <= 1 THEN 0 ELSE 100
setDocument(s, h) == [s EXCEPT !.vsb = [value |-> 0, maximum |-> ViewMaximum(pageCount(s, h))]]

\* save_config(cfg): the whole config is written; a failed write is swallowed
save_config(s, write_ok) ==
    IF write_ok
    THEN [s EXCEPT !.disk = [root_folder |-> s.cfg.root_folder,
                             notes |-> IF s.cfg.has_notes THEN <<s.notes_store>> ELSE <<>>]]
    ELSE s

\* MainWindow._save_notes_store
save_notes_store(s, write_ok) == save_config([s EXCEPT !.cfg.has_notes = TRUE], write_ok)

\* a handler starts: no message box shown yet, no exception
Begin(s) == [s EXCEPT !.dialog = NoMessage, !.raised = "none"]

-----------------------------------------------------------------------------
(* Navigation / status reporter *)

ScrollPage_floor_first(value, maximum, total) == (value \div maximum) * total

\* int((value / maximum) * total): the quotient is exact for the scroll ranges used here
ScrollPage(value, maximum, total) == (value * total) \div maximum

status_page_unclamped(value, maximum, total) ==
    IF maximum > 0 THEN ScrollPage(value, maximum, total) + 1 ELSE 1

\* the page update_status_page shows (dark)
status_page(value, maximum, total) ==
    LET current == IF maximum > 0 THEN ScrollPage(value, maximum, total) + 1 ELSE 1
    IN  Min(Max(1, current), total)

\* MainWindow.update_status_page (dark)
update_status_page(s) ==
    IF s.pdf_doc = 0 \/ pageCount(s, s.pdf_doc) = 0 THEN s
    ELSE LET total == pageCount(s, s.pdf_doc)
         IN  [s EXCEPT !.status_label =
                 Label("Page", status_page(s.vsb.value, s.vsb.maximum, total), total,
                       <<basename(s.current_pdf_path)>>)]

\* the 0-based page update_status_page computes (classic); view_page is what
\* pdf_view.currentPage() gave, -1 when the view has no such call or it gave None
status_page_classic(view_page, value, maximum, total) ==
    LET cur == IF view_page < 0
               THEN ScrollPage(value, Max(1, maximum), total)
               ELSE view_page
    IN  Max(0, Min(total - 1, cur))

\* MainWindow._breadcrumb (classic)
breadcrumb(s, path) ==
    IF s.root_folder = None \/ relpath_raises(path, s.root_folder) THEN <<basename(path)>>
    ELSE relpath(path, s.root_folder)

\* MainWindow.update_status_page (classic)
update_status_page_classic(s, view_page) ==
    IF s.current_pdf_path = None \/ s.pdf_doc = 0
    THEN [s EXCEPT !.status_label = Label("Ready", 0, 0, None)]
    ELSE LET total == pageCount(s, s.pdf_doc)
         IN  IF total <= 0 THEN [s EXCEPT !.status_label = Label("Ready", 0, 0, None)]
             ELSE [s EXCEPT !.status_label =
                     Label("Page",
                           status_page_classic(view_page, s.vsb.value, s.vsb.maximum, total) + 1,
                           total, breadcrumb(s, s.current_pdf_path))]

-----------------------------------------------------------------------------
(* Note store: listing *)

RECURSIVE rows(_, _)
rows(b, notes) == IF notes = <<>> THEN <<>> ELSE <<row_text(b, Head(notes))>> \o rows(b, Tail(notes))

\* the key whose list load_notes_for_current_pdf shows (dark):
\* notes_store.get(key) or notes_store.get(current_pdf_path, [])
listed_key(s) ==
    LET key == get_store_key(s.current_pdf_path, s.root_folder)
    IN  IF dict_get(s.notes_store, key, <<>>) # <<>> THEN key
        ELSE IF s.current_pdf_path \in DOMAIN s.notes_store THEN s.current_pdf_path
        ELSE key

listed_notes(s) == dict_get(s.notes_store, listed_key(s), <<>>)

\* MainWindow.load_notes_for_current_pdf (dark)
load_notes_for_current_pdf(s) ==
    LET cleared == [s EXCEPT !.notes_list = <<>>, !.currentRow = -1]
    IN  IF s.current_pdf_path = None THEN cleared
        ELSE [cleared EXCEPT !.notes_list = rows(s.build, listed_notes(s))]

\* MainWindow.load_notes_for_current_pdf (classic)
load_notes_for_current_pdf_classic(s) ==
    LET cleared == [s EXCEPT !.notes_list = <<>>, !.currentRow = -1]
    IN  IF s.current_pdf_path = None THEN cleared
        ELSE [cleared EXCEPT !.notes_list =
                 rows(s.build, dict_get(s.notes_store, s.current_pdf_path, <<>>))]

-----------------------------------------------------------------------------
(* Document load controller (dark) *)

\* MainWindow._reset_ui_cursor: QApplication.restoreOverrideCursor()
reset_ui_cursor(s) == [s EXCEPT !.cursor = Max(0, @ - 1)]

\* MainWindow._finalize_new_doc (dark)
finalize_new_doc(s, new_doc, abs_path) ==
    LET old_doc == s.pdf_doc
        s1 == setDocument([s EXCEPT !.pdf_doc = new_doc], new_doc)
        s2 == [s1 EXCEPT !.zoom_mode = "FitToWidth"]
        s3 == IF old_doc # 0 THEN deleteLater(s2, old_doc) ELSE s2
        s4 == reset_ui_cursor([s3 EXCEPT !.current_pdf_path = abs_path, !.pending_doc = 0])
        s5 == [s4 EXCEPT !.status_label = Label("Opened", 0, 0, <<basename(abs_path)>>)]
    IN  update_status_page(load_notes_for_current_pdf(s5))

open_pdf_keeps_pending(s, new_doc) == IF s.pending_doc # 0 THEN s.pending_doc ELSE new_doc

\* the handle open_pdf installs in _pending_doc; s is the state open_pdf was
\* called in (dark and classic)
open_pdf_pending(s, new_doc) == new_doc

\* MainWindow.open_pdf (dark).  load_result is what new_doc.load(abs_path) does:
\* "raise", or the status it returns; lag is the time from monotonic() to
\* _load_timer.start()
open_pdf(s, abs_path, load_result, lag) ==
    LET s0 == Begin(s)
        s1 == [s0 EXCEPT !.load_timer = FALSE]
        s2 == IF s1.pending_doc # 0
              THEN [deleteLater(s1, s1.pending_doc) EXCEPT
                       !.pending_doc = 0, !.superseded = @ \cup {s1.pending_doc}]
              ELSE s1
        s3 == [s2 EXCEPT !.cursor = @ + 1,
                         !.status_label = Label("Loading", 0, 0, <<basename(abs_path)>>)]
        new_doc == Len(s.docs) + 1
        s4 == [s3 EXCEPT !.docs = Append(@, NewDoc(abs_path)),
                         !.pending_doc = open_pdf_pending(s, new_doc),
                         !.pending_path = abs_path,
                         !.elapsed = 0]
    IN  IF load_result = "raise"
        THEN [reset_ui_cursor(s4) EXCEPT
                 !.dialog = Message("Load failed", 0, None),
                 !.ev = Event("open_pdf", "load_raised", new_doc, "Null", 0)]
        ELSE LET s5 == [s4 EXCEPT !.docs[new_doc].status = load_result]
             IN  IF load_result = "Ready"
                 THEN [finalize_new_doc(s5, new_doc, abs_path) EXCEPT
                          !.ev = Event("open_pdf", "finalized", new_doc, load_result, 0)]
                 ELSE [s5 EXCEPT !.load_timer = TRUE, !.elapsed = lag,
                                 !.ev = Event("open_pdf", "pending", new_doc, load_result, 0)]

poll_branch_error_as_ready(status, ms) ==
    IF status \in {"Ready", "Error"} THEN "finalized"
    ELSE IF ms > LOAD_TIMEOUT_S * 1000 THEN "timeout"
    ELSE "waiting"

\* the branch of _poll_load_status taken for a document seen with `status`
\* after `ms` milliseconds (dark)
poll_branch(status, ms) ==
    IF status = "Ready" THEN "finalized"
    ELSE IF status = "Error" THEN "status_error"
    ELSE IF ms > LOAD_TIMEOUT_S * 1000 THEN "timeout"
    ELSE "waiting"

\* MainWindow._poll_load_status (dark), run when _load_timer fires
poll_load_status(s) ==
    LET s0 == Begin(s)
        doc == s0.pending_doc
    IN  IF doc = 0
        THEN [reset_ui_cursor([s0 EXCEPT !.load_timer = FALSE]) EXCEPT
                 !.ev = Event("poll", "idle", 0, "Null", 0)]
        ELSE LET status == s0.docs[doc].status
                 branch == poll_branch(status, s0.elapsed)
                 e == Event("poll", branch, doc, status, IF branch = "timeout" THEN s0.elapsed ELSE 0)
             IN  CASE branch = "finalized" ->
                        [finalize_new_doc([s0 EXCEPT !.load_timer = FALSE], doc, s0.pending_path)
                            EXCEPT !.ev = e]
                   [] branch = "status_error" ->
                        [reset_ui_cursor([s0 EXCEPT !.load_timer = FALSE])
                            EXCEPT !.pending_doc = 0, !.ev = e]
                   [] branch = "timeout" ->
                        [deleteLater(reset_ui_cursor([s0 EXCEPT !.load_timer = FALSE]), doc)
                            EXCEPT !.pending_doc = 0, !.ev = e]
                   [] OTHER -> [s0 EXCEPT !.ev = e]

-----------------------------------------------------------------------------
(* Document load controller (classic) *)

\* MainWindow._finalize_new_doc (classic); update_status_page is queued with
\* QTimer.singleShot(0, ...) and runs as its own event
finalize_new_doc_classic(s, new_doc, abs_path) ==
    LET old == s.pdf_doc
        s1 == setDocument([s EXCEPT !.pdf_doc = new_doc], new_doc)
        s2 == [s1 EXCEPT !.zoom_mode = "FitToWidth", !.current_pdf_path = abs_path]
        s3 == load_notes_for_current_pdf_classic(s2)
        s4 == IF old # 0 THEN deleteLater(s3, old) ELSE s3
    IN  [s4 EXCEPT !.pending_doc = 0, !.pending_path = None,
                   !.status_label = Label("Opened", 0, 0, <<basename(abs_path)>>)]

\* MainWindow.open_pdf (classic)
open_pdf_classic(s, abs_path, load_result, lag) ==
    LET s0 == Begin(s)
        new_doc == Len(s.docs) + 1
        s1 == [s0 EXCEPT !.docs = Append(@, NewDoc(abs_path)),
                         !.pending_doc = open_pdf_pending(s, new_doc),
                         !.pending_path = abs_path,
                         !.elapsed = 0,
                         !.superseded = IF s0.pending_doc # 0 THEN @ \cup {s0.pending_doc} ELSE @]
    IN  IF load_result = "raise"
        THEN [deleteLater(s1, new_doc) EXCEPT
                 !.dialog = Message("Load call failed", 0, None),
                 !.pending_doc = 0, !.pending_path = None,
                 !.ev = Event("open_pdf", "load_raised", new_doc, "Null", 0)]
        ELSE LET s2 == [s1 EXCEPT !.docs[new_doc].status = load_result]
             IN  IF load_result = "Ready"
                 THEN [finalize_new_doc_classic(s2, new_doc, abs_path) EXCEPT
                          !.ev = Event("open_pdf", "finalized", new_doc, load_result, 0)]
                 ELSE [s2 EXCEPT !.status_label = Label("Opening", 0, 0, <<basename(abs_path)>>),
                                 !.load_timer = TRUE, !.elapsed = lag,
                                 !.ev = Event("open_pdf", "pending", new_doc, load_result, 0)]

\* the branch of _poll_load_status taken (classic): an Error status is not looked at
poll_branch_classic(status, ms) ==
    IF status = "Ready" THEN "finalized"
    ELSE IF ms > LOAD_TIMEOUT_S_classic * 1000 THEN "timeout"
    ELSE "waiting"

\* MainWindow._poll_load_status (classic), run when _load_timer fires
poll_load_status_classic(s) ==
    LET s0 == Begin(s)
        doc == s0.pending_doc
        path == s0.pending_path
    IN  IF doc = 0 \/ path = None
        THEN [s0 EXCEPT !.load_timer = FALSE, !.ev = Event("poll", "idle", 0, "Null", 0)]
        ELSE LET status == s0.docs[doc].status
                 branch == poll_branch_classic(status, s0.elapsed)
                 e == Event("poll", branch, doc, status, IF branch = "timeout" THEN s0.elapsed ELSE 0)
             IN  CASE branch = "finalized" ->
                        [finalize_new_doc_classic([s0 EXCEPT !.load_timer = FALSE], doc, path)
                            EXCEPT !.ev = e]
                   [] branch = "timeout" ->
                        [deleteLater([s0 EXCEPT !.load_timer = FALSE], doc) EXCEPT
                            !.dialog = Message("PDF load timeout", LOAD_TIMEOUT_S_classic, path),
                            !.pending_doc = 0, !.pending_path = None,
                            !.status_label = Label("Error opening PDF", 0, 0, None),
                            !.ev = e]
                   [] OTHER -> [s0 EXCEPT !.ev = e]

-----------------------------------------------------------------------------
(* Note store (dark) *)

\* the key add_note writes under
add_note_key(s) == get_store_key(s.current_pdf_path, s.root_folder)

lookup_key_no_fallback(s) == get_store_key(s.current_pdf_path, s.root_folder)

\* the key edit_note, remove_note and on_note_clicked address:
\* if key not in notes_store and current_pdf_path in notes_store: key = current_pdf_path
lookup_key(s) ==
    LET key == get_store_key(s.current_pdf_path, s.root_folder)
    IN  IF key \notin DOMAIN s.notes_store /\ s.current_pdf_path \in DOMAIN s.notes_store
        THEN s.current_pdf_path
        ELSE key

\* notes_store.setdefault(key, []).append(res)
setdefault_append(store, key, res) == dict_set(store, key, Append(dict_get(store, key, <<>>), res))

after_change_unsaved(s, write_ok) == load_notes_for_current_pdf(s)

\* what follows a change of notes_store in add_note, edit_note, remove_note (dark)
after_change(s, write_ok) == load_notes_for_current_pdf(save_notes_store(s, write_ok))

\* MainWindow.add_note (dark): the user asks for page p and text t in the dialog
\* and accepts it or not
add_note(s, accepted, p, t, write_ok) ==
    LET s0 == Begin(s)
    IN  IF s0.current_pdf_path = None \/ s0.pdf_doc = 0
        THEN [s0 EXCEPT !.ev = NoteEvent("add_note", "ignored", None, -1, 0, <<>>)]
        ELSE IF ~accepted
        THEN [s0 EXCEPT !.ev = NoteEvent("add_note", "cancelled", None, -1, 0, <<>>)]
        ELSE LET res == NoteDialog_accept(p, t, pageCount(s0, s0.pdf_doc))
                 key == add_note_key(s0)
                 s1 == [s0 EXCEPT !.notes_store = setdefault_append(@, key, res)]
             IN  [after_change(s1, write_ok) EXCEPT
                     !.ev = NoteEvent("add_note", "added", key, -1, p, t)]

\* MainWindow.edit_note (dark)
edit_note(s, accepted, p, t, write_ok) ==
    LET s0 == Begin(s)
        row == s0.currentRow
        key == lookup_key(s0)
        current_notes == dict_get(s0.notes_store, key, <<>>)
    IN  IF s0.current_pdf_path = None \/ row < 0 \/ row >= Len(current_notes)
        THEN [s0 EXCEPT !.ev = NoteEvent("edit_note", "ignored", None, -1, 0, <<>>)]
        ELSE IF ~accepted
        THEN [s0 EXCEPT !.ev = NoteEvent("edit_note", "cancelled", None, -1, 0, <<>>)]
        ELSE LET max_page == IF s0.pdf_doc # 0 THEN pageCount(s0, s0.pdf_doc) ELSE 9999
                 res == NoteDialog_accept(p, t, max_page)
                 s1 == [s0 EXCEPT !.notes_store[key][row + 1] = res]
             IN  [after_change(s1, write_ok) EXCEPT
                     !.ev = NoteEvent("edit_note", "edited", key, row, p, t)]

pop_note_keeps_key(store, key, row) == dict_set(store, key, list_pop(store[key], row))

\* notes_store[key].pop(row); if not notes_store[key]: del notes_store[key]
pop_note(store, key, row) ==
    LET rest == list_pop(store[key], row)
    IN  IF rest = <<>> THEN dict_del(store, key) ELSE dict_set(store, key, rest)

\* MainWindow.remove_note (dark)
remove_note(s, write_ok) ==
    LET s0 == Begin(s)
        row == s0.currentRow
        key == lookup_key(s0)
    IN  IF s0.current_pdf_path = None \/ row < 0 \/ key \notin DOMAIN s0.notes_store
        THEN [s0 EXCEPT !.ev = NoteEvent("remove_note", "ignored", None, -1, 0, <<>>)]
        ELSE IF row >= Len(s0.notes_store[key])
        THEN [s0 EXCEPT !.raised = "IndexError",
                        !.ev = NoteEvent("remove_note", "raised", key, row, 0, <<>>)]
        ELSE LET s1 == [s0 EXCEPT !.notes_store = pop_note(@, key, row)]
             IN  [after_change(s1, write_ok) EXCEPT
                     !.ev = NoteEvent("remove_note", "removed", key, row, 0, <<>>)]

\* QScrollBar.setValue(v) keeps the value within [0, maximum]
slider_value(v, maximum) == Max(0, Min(v, maximum))

\* vsb.setValue(v): valueChanged runs update_status_page when the value changes
setValue(s, v) ==
    LET w == slider_value(v, s.vsb.maximum)
    IN  IF w = s.vsb.value THEN s ELSE update_status_page([s EXCEPT !.vsb.value = w])

\* MainWindow.on_note_clicked (dark): the user clicks the item in `row`, which
\* becomes the current row
on_note_clicked(s, row) ==
    LET s0 == [Begin(s) EXCEPT !.currentRow = row]
        key == lookup_key(s0)
        notes == dict_get(s0.notes_store, key, <<>>)
    IN  IF s0.current_pdf_path = None \/ s0.pdf_doc = 0 \/ row >= Len(notes)
           \/ pageCount(s0, s0.pdf_doc) = 0
        THEN [s0 EXCEPT !.ev = NoteEvent("on_note_clicked", "ignored", None, -1, 0, <<>>)]
        ELSE LET page == notes[row + 1].page
                 total == pageCount(s0, s0.pdf_doc)
             IN  [setValue(s0, ((page - 1) * s0.vsb.maximum) \div total) EXCEPT
                     !.ev = NoteEvent("on_note_clicked", "jumped", key, row, 0, <<>>)]

\* MainWindow.select_root (dark): folder is the directory chosen, None if the
\* dialog was cancelled
select_root(s, folder, write_ok) ==
    LET s0 == Begin(s)
    IN  IF folder = None THEN [s0 EXCEPT !.ev = Event("select_root", "cancelled", 0, "Null", 0)]
        ELSE [save_config([s0 EXCEPT !.root_folder = folder, !.cfg.root_folder = folder],
                          write_ok)
                 EXCEPT !.ev = Event("select_root", "set", 0, "Null", 0)]

-----------------------------------------------------------------------------
(* Note store (classic): the key is always current_pdf_path *)

\* what follows a change of notes_store in add_note, edit_note, remove_note (classic)
after_change_classic(s, write_ok) ==
    load_notes_for_current_pdf_classic(save_notes_store(s, write_ok))

\* MainWindow.add_note (classic)
add_note_classic(s, accepted, p, t, write_ok) ==
    LET s0 == Begin(s)
        path == s0.current_pdf_path
    IN  IF path = None \/ s0.pdf_doc = 0
        THEN [s0 EXCEPT !.dialog = Message("Open a PDF first.", 0, None),
                        !.ev = NoteEvent("add_note", "ignored", None, -1, 0, <<>>)]
        ELSE IF ~accepted
        THEN [s0 EXCEPT !.ev = NoteEvent("add_note", "cancelled", None, -1, 0, <<>>)]
        ELSE LET res == NoteDialog_accept(p, t, pageCount(s0, s0.pdf_doc))
                 s1 == [s0 EXCEPT !.notes_store = setdefault_append(@, path, res)]
             IN  [after_change_classic(s1, write_ok) EXCEPT
                     !.ev = NoteEvent("add_note", "added", path, -1, p, t)]

\* MainWindow.edit_note (classic)
edit_note_classic(s, accepted, p, t, write_ok) ==
    LET s0 == Begin(s)
        path == s0.current_pdf_path
        sel == s0.currentRow
    IN  IF sel < 0 \/ path = None \/ s0.pdf_doc = 0
        THEN [s0 EXCEPT !.dialog = Message("Select a note.", 0, None),
                        !.ev = NoteEvent("edit_note", "ignored", None, -1, 0, <<>>)]
        ELSE IF sel >= Len(dict_get(s0.notes_store, path, <<>>))
        THEN [s0 EXCEPT !.raised = "IndexError",
                        !.ev = NoteEvent("edit_note", "raised", path, sel, 0, <<>>)]
        ELSE IF ~accepted
        THEN [s0 EXCEPT !.ev = NoteEvent("edit_note", "cancelled", None, -1, 0, <<>>)]
        ELSE LET res == NoteDialog_accept(p, t, pageCount(s0, s0.pdf_doc))
                 s1 == [s0 EXCEPT !.notes_store[path][sel + 1] = res]
             IN  [after_change_classic(s1, write_ok) EXCEPT
                     !.ev = NoteEvent("edit_note", "edited", path, sel, p, t)]

\* MainWindow.remove_note (classic): confirmed is the answer to "Remove selected note?"
remove_note_classic(s, confirmed, write_ok) ==
    LET s0 == Begin(s)
        path == s0.current_pdf_path
        sel == s0.currentRow
    IN  IF sel < 0 \/ path = None
        THEN [s0 EXCEPT !.dialog = Message("Select a note.", 0, None),
                        !.ev = NoteEvent("remove_note", "ignored", None, -1, 0, <<>>)]
        ELSE IF ~confirmed
        THEN [s0 EXCEPT !.ev = NoteEvent("remove_note", "cancelled", None, -1, 0, <<>>)]
        ELSE IF path \notin DOMAIN s0.notes_store
        THEN [s0 EXCEPT !.raised = "KeyError",
                        !.ev = NoteEvent("remove_note", "raised", path, sel, 0, <<>>)]
        ELSE IF sel >= Len(s0.notes_store[path])
        THEN [s0 EXCEPT !.raised = "IndexError",
                        !.ev = NoteEvent("remove_note", "raised", path, sel, 0, <<>>)]
        ELSE LET s1 == [s0 EXCEPT !.notes_store = pop_note(@, path, sel)]
             IN  [after_change_classic(s1, write_ok) EXCEPT
                     !.ev = NoteEvent("remove_note", "removed", path, sel, 0, <<>>)]

\* MainWindow.on_note_clicked (classic).  QPdfView has no setPage, so the scroll
\* bar is set; valueChanged runs update_status_page when the value changes
on_note_clicked_classic(s, row, view_page) ==
    LET s0 == [Begin(s) EXCEPT !.currentRow = row]
        path == s0.current_pdf_path
        notes == dict_get(s0.notes_store, path, <<>>)
    IN  IF path = None \/ s0.pdf_doc = 0 \/ row >= Len(notes)
        THEN [s0 EXCEPT !.ev = NoteEvent("on_note_clicked", "ignored", None, -1, 0, <<>>)]
        ELSE LET page == notes[row + 1].page
                 total == pageCount(s0, s0.pdf_doc)
                 v == slider_value(((page - 1) * s0.vsb.maximum) \div Max(1, total - 1),
                                   s0.vsb.maximum)
                 s1 == IF total > 0 /\ v # s0.vsb.value
                       THEN update_status_page_classic([s0 EXCEPT !.vsb.value = v], view_page)
                       ELSE s0
             IN  [s1 EXCEPT !.ev = NoteEvent("on_note_clicked", "jumped", path, row, 0, <<>>)]

\* MainWindow.select_root (classic)
select_root_classic(s, folder, write_ok) == select_root(s, folder, write_ok)

-----------------------------------------------------------------------------
(* Inputs *)

\* what QPdfDocument.load does: raise, or return this status
LoadResults == {"raise", "Ready", "Loading", "Error"}
Lags == 0 .. MaxLag
\* what the user gives the note dialog: <<page, text>>
DialogInputs == { <<0, <<"x">>>>, <<999, <<" ", "y", " ">>>> }
\* whether writing the config file succeeds
WriteResults == {TRUE}
\* scroll ranges and positions of the view
ScrollMaxima == {0, 100}
ScrollValues == {0, 1, 50, 99, 100}
\* QPdfView has no currentPage(): update_status_page (classic) falls back to the scroll bar
NoCurrentPage == -1

Alive == raised = "none"

Timeout_ms == IF build = "dark" THEN LOAD_TIMEOUT_S * 1000 ELSE LOAD_TIMEOUT_S_classic * 1000
Interval_ms == IF build = "dark" THEN POLL_INTERVAL_MS ELSE POLL_INTERVAL_MS_classic

\* the moments at which the user and the toolkit act while a load is polled
Attended ==
    \/ ~load_timer
    \/ elapsed < EarlyPolls * Interval_ms
    \/ elapsed + Interval_ms > Timeout_ms

Init ==
    /\ build \in Builds
    /\ root_folder \in {None, <<"/", "r1">>}
    /\ cfg = [root_folder |-> root_folder, has_notes |-> FALSE]
    /\ notes_store = EmptyDict
    /\ disk = [root_folder |-> root_folder, notes |-> <<>>]
    /\ pdf_doc = 0
    /\ current_pdf_path = None
    /\ pending_doc = 0
    /\ pending_path = None
    /\ elapsed = 0
    /\ load_timer = FALSE
    /\ docs = <<>>
    /\ notes_list = <<>>
    /\ currentRow = -1
    /\ status_label = Label(IF root_folder = None THEN "Welcome" ELSE "Ready", 0, 0, None)
    /\ vsb = [value |-> 0, maximum |-> 0]
    /\ zoom_mode = "Single"
    /\ cursor = 0
    /\ dialog = NoMessage
    /\ raised = "none"
    /\ ev = Event("init", "none", 0, "Null", 0)
    /\ superseded = {}
    /\ owners = EmptyDict

\* notes a configuration file left by an earlier run can hold: under absolute
\* paths (written with no root set), or under a root-relative key as well
StoredNotes ==
    { (<<"/", "r1", "a.pdf">> :> <<[text |-> <<"x">>, page |-> 1]>>) @@
      (<<"/", "r2", "a.pdf">> :> <<[text |-> <<"y">>, page |-> 42], [text |-> <<"x">>, page |-> 1]>>),
      (<<"a.pdf">> :> <<[text |-> <<"y">>, page |-> 10]>>) @@
      (<<"/", "r1", "a.pdf">> :> <<[text |-> <<"x">>, page |-> 1]>>) }

\* the window constructed over such a file: load_config gives cfg with its notes
InitStored ==
    /\ build \in Builds
    /\ root_folder \in {None, <<"/", "r1">>}
    /\ notes_store \in StoredNotes
    /\ cfg = [root_folder |-> root_folder, has_notes |-> TRUE]
    /\ disk = [root_folder |-> root_folder, notes |-> <<notes_store>>]
    /\ pdf_doc = 0
    /\ current_pdf_path = None
    /\ pending_doc = 0
    /\ pending_path = None
    /\ elapsed = 0
    /\ load_timer = FALSE
    /\ docs = <<>>
    /\ notes_list = <<>>
    /\ currentRow = -1
    /\ status_label = Label(IF root_folder = None THEN "Welcome" ELSE "Ready", 0, 0, None)
    /\ vsb = [value |-> 0, maximum |-> 0]
    /\ zoom_mode = "Single"
    /\ cursor = 0
    /\ dialog = NoMessage
    /\ raised = "none"
    /\ ev = Event("init", "none", 0, "Null", 0)
    /\ superseded = {}
    /\ owners = [k \in DOMAIN notes_store |->
                    [i \in 1 .. Len(notes_store[k]) |-> [path |-> None]]]

-----------------------------------------------------------------------------
(* Actions: one per event the window handles *)

\* on_tree_clicked -> open_pdf(path), with every outcome of load
OpenPdf ==
    /\ Alive /\ Attended /\ Len(docs) < MaxOpens
    /\ \E path \in Files, r \in LoadResults, lag \in Lags :
          Commit(IF build = "dark" THEN open_pdf(State, path, r, lag)
                 ELSE open_pdf_classic(State, path, r, lag))

\* open_pdf(path) of a file the toolkit loads at once
OpenPdfReady ==
    /\ Alive /\ Len(docs) < MaxOpens
    /\ \E path \in Files :
          Commit(IF build = "dark" THEN open_pdf(State, path, "Ready", 0)
                 ELSE open_pdf_classic(State, path, "Ready", 0))

\* the toolkit finishes loading a document, or fails to
LoadEnds ==
    /\ Alive /\ Attended
    /\ \E h \in 1 .. Len(docs), st \in {"Ready", "Error"} :
          /\ docs[h].status = "Loading"
          /\ docs' = [docs EXCEPT ![h].status = st]
          /\ UNCHANGED <<build, root_folder, cfg, notes_store, disk, pdf_doc,
                         current_pdf_path, pending_doc, pending_path, elapsed,
                         load_timer, notes_list, currentRow, status_label, vsb,
                         zoom_mode, cursor, dialog, raised, ev, superseded, owners>>

\* the elapsed time is read only when the load timer fires: it is kept while
\* the timer runs
Sampled(s) == [s EXCEPT !.elapsed = IF s.load_timer THEN @ ELSE 0]

\* _load_timer.timeout, one interval after the timer started or last fired
LoadTimerFires ==
    /\ Alive /\ load_timer
    /\ elapsed <= Timeout_ms + Interval_ms
    /\ LET s == [State EXCEPT !.elapsed = @ + Interval_ms]
       IN  Commit(Sampled(IF build = "dark" THEN poll_load_status(s)
                          ELSE poll_load_status_classic(s)))

\* _status_timer.timeout and the queued QTimer.singleShot calls (classic)
StatusTimerFires ==
    /\ Alive /\ build = "classic"
    /\ Commit([update_status_page_classic(Begin(State), NoCurrentPage) EXCEPT
                  !.ev = Event("update_status_page", "none", 0, "Null", 0)])

\* the user scrolls the view, or resizes it: vsb.valueChanged -> update_status_page
Scroll ==
    /\ Alive /\ pdf_doc # 0
    /\ \E m \in ScrollMaxima, v \in ScrollValues :
          /\ v <= m
          /\ [value |-> v, maximum |-> m] # vsb
          /\ LET s == [Begin(State) EXCEPT !.vsb = [value |-> v, maximum |-> m],
                                           !.ev = Event("scroll", "none", 0, "Null", 0)]
             IN  Commit(IF build = "dark" THEN update_status_page(s)
                        ELSE update_status_page_classic(s, NoCurrentPage))

SelectRoot ==
    /\ Alive
    /\ \E folder \in Roots \cup {None}, write_ok \in WriteResults :
          Commit(IF build = "dark" THEN select_root(State, folder, write_ok)
                 ELSE select_root_classic(State, folder, write_ok))

AddNote ==
    /\ Alive /\ NotesIn(notes_store) < MaxNotes
    /\ \E accepted \in BOOLEAN, in \in DialogInputs, write_ok \in WriteResults :
          Commit(IF build = "dark" THEN add_note(State, accepted, in[1], in[2], write_ok)
                 ELSE add_note_classic(State, accepted, in[1], in[2], write_ok))

EditNote ==
    /\ Alive
    /\ \E accepted \in BOOLEAN, in \in DialogInputs, write_ok \in WriteResults :
          Commit(IF build = "dark" THEN edit_note(State, accepted, in[1], in[2], write_ok)
                 ELSE edit_note_classic(State, accepted, in[1], in[2], write_ok))

RemoveNote ==
    /\ Alive
    /\ \E confirmed \in BOOLEAN, write_ok \in WriteResults :
          Commit(IF build = "dark" THEN remove_note(State, write_ok)
                 ELSE remove_note_classic(State, confirmed, write_ok))

\* the user clicks a row of notes_list
NoteClicked ==
    /\ Alive
    /\ \E row \in 0 .. Len(notes_list) - 1 :
          Commit(IF build = "dark" THEN on_note_clicked(State, row)
                 ELSE on_note_clicked_classic(State, row, NoCurrentPage))

-----------------------------------------------------------------------------
(* Specifications *)

\* the load handshake: requests, the toolkit's progress, the timers
NextLoad == OpenPdf \/ LoadEnds \/ LoadTimerFires \/ StatusTimerFires
SpecLoad == Init /\ [][NextLoad]_vars

\* the load handshake of a window that starts with stored notes
SpecStored == InitStored /\ [][NextLoad]_vars

\* the note store over documents that load at once
NextNotes == OpenPdfReady \/ SelectRoot \/ AddNote \/ EditNote \/ RemoveNote \/ NoteClicked
SpecNotes == Init /\ [][NextNotes]_vars

\* the status line over documents that load at once
NextStatus == OpenPdfReady \/ Scroll \/ StatusTimerFires
SpecStatus == Init /\ [][NextStatus]_vars

Next == NextLoad \/ NextNotes \/ NextStatus
Spec == Init /\ [][Next]_vars

-----------------------------------------------------------------------------
(* Load controller properties, checked under SpecLoad *)

\* C1: once a later open_pdf has replaced a pending load, the replaced handle
\* is never installed: whatever status it reaches afterwards, and in whatever
\* order the two loads complete, pdf_doc is never a superseded handle, no
\* superseded handle is finalized, and current_pdf_path is the path of the
\* installed handle.
C1_SupersededNeverInstalled ==
    /\ pdf_doc \notin superseded
    /\ ev.outcome = "finalized" => ev.doc \notin superseded /\ ev.doc = pdf_doc
    /\ pdf_doc # 0 => current_pdf_path = docs[pdf_doc].path

\* a replaced load became Ready and the later request for another file is the
\* one installed
C1_Witness ==
    \E a \in superseded :
        /\ docs[a].status = "Ready"
        /\ pdf_doc > a
        /\ docs[pdf_doc].path # docs[a].path
        /\ current_pdf_path = docs[pdf_doc].path
        /\ ev.outcome = "finalized"

\* the events in which a load fails: the load call raised, a poll saw the
\* Error status, or the deadline passed
LoadFailed(e) ==
    \/ e.outcome \in {"load_raised", "status_error", "timeout"}
    \/ e.op = "poll" /\ e.status = "Error"

\* C2: a step in which a load fails (raise, Error status or timeout) leaves
\* pdf_doc and current_pdf_path as they were and does not release the
\* document that was open.
C2_FailureKeepsCurrent ==
    [][LoadFailed(ev') =>
          /\ pdf_doc' = pdf_doc
          /\ current_pdf_path' = current_pdf_path
          /\ pdf_doc # 0 => docs'[pdf_doc] = docs[pdf_doc] /\ ~docs'[pdf_doc].deleted]_vars

\* a document is open and a later load has just timed out
C2_Witness ==
    /\ ev.outcome = "timeout"
    /\ pdf_doc # 0
    /\ ev.doc # pdf_doc
    /\ ~docs[pdf_doc].deleted
    /\ current_pdf_path = docs[pdf_doc].path

\* C3: a load that stays Loading is given up no earlier than LOAD_TIMEOUT_S
\* and no later than LOAD_TIMEOUT_S plus one poll interval after the request;
\* giving up stops the timer, releases the handle, clears the pending slot
\* and reports the failure in a message that names the bound and the path.
C3_TimeoutReported ==
    /\ load_timer /\ pending_doc # 0 => elapsed <= Timeout_ms
    /\ ev.outcome = "timeout" =>
          /\ ev.elapsed >= Timeout_ms
          /\ ev.elapsed <= Timeout_ms + Interval_ms
          /\ ~load_timer
          /\ docs[ev.doc].deleted
          /\ pending_doc = 0
          /\ dialog # NoMessage
          /\ dialog.bound = Timeout_ms \div 1000
          /\ dialog.path = docs[ev.doc].path

\* the build without a message gave up a load after the deadline: nothing is
\* shown and the status bar still says the file is loading
C3_Witness ==
    /\ build = "dark"
    /\ ev.outcome = "timeout"
    /\ ev.elapsed > Timeout_ms
    /\ dialog = NoMessage
    /\ status_label.kind = "Loading"
    /\ docs[ev.doc].deleted /\ pending_doc = 0 /\ ~load_timer

-----------------------------------------------------------------------------
(* Note store properties, checked under SpecNotes *)

\* the key of the current document
DocKey ==
    IF build = "dark" THEN get_store_key(current_pdf_path, root_folder) ELSE current_pdf_path

\* notes_store after the note is appended to the list of key
Appended(key, note) ==
    [k \in DOMAIN notes_store \cup {key} |->
        IF k = key
        THEN (IF key \in DOMAIN notes_store THEN notes_store[key] ELSE <<>>) \o <<note>>
        ELSE notes_store[k]]

\* the page asked for, brought into 1..n
Clamped(p, n) == IF p < 1 THEN 1 ELSE IF p > n THEN n ELSE p

\* C4 as stated: add_note with page p and text t on an open document of n
\* pages appends exactly the note {page: min(max(p, 1), n), text: t} to the
\* list of the document's key, and the list shown ends with it.
C4_AddAppendsRawText ==
    [][ev'.op = "add_note" /\ ev'.outcome = "added" =>
          LET note == [text |-> ev'.text,
                       page |-> Clamped(ev'.page, FilePages(current_pdf_path))]
          IN  /\ notes_store' = Appended(DocKey, note)
              /\ notes_list' # <<>>
              /\ notes_list'[Len(notes_list')] = row_text(build, note)]_vars

\* C4: add_note with page p and text t on an open document of n pages appends
\* exactly the note {page: min(max(p, 1), n), text: t without its leading and
\* trailing whitespace} to the list of the document's key, and the list shown
\* ends with it.
C4_AddAppends ==
    [][ev'.op = "add_note" /\ ev'.outcome = "added" =>
          LET note == [text |-> strip(ev'.text),
                       page |-> Clamped(ev'.page, FilePages(current_pdf_path))]
          IN  /\ notes_store' = Appended(DocKey, note)
              /\ notes_list' # <<>>
              /\ notes_list'[Len(notes_list')] = row_text(build, note)]_vars

\* page 999 was asked for on the 10-page document and the note was appended
\* after an earlier one with page 10
C4_Witness ==
    /\ ev.op = "add_note" /\ ev.outcome = "added"
    /\ ev.page = 999
    /\ pdf_doc # 0 /\ FilePages(current_pdf_path) = 10
    /\ ev.key \in DOMAIN notes_store
    /\ Len(notes_store[ev.key]) = 2
    /\ notes_store[ev.key][2].page = 10
    /\ Len(notes_list) = 2

\* notes_store after entry i (from 0) of the list of key becomes note
Replaced(key, i, note) ==
    [k \in DOMAIN notes_store |->
        IF k = key
        THEN [j \in 1..Len(notes_store[key]) |->
                 IF j = i + 1 THEN note ELSE notes_store[key][j]]
        ELSE notes_store[k]]

\* C5 as stated: edit_note of the in-bounds entry i with the new values
\* (p2, t2) replaces exactly that entry with {page: p2, text: t2}; the length
\* of the list, its other entries and the other keys stay, and the list shown
\* has the replacement in row i.
C5_EditReplacesRaw ==
    [][ev'.op = "edit_note" /\ ev'.outcome = "edited" =>
          LET note == [text |-> ev'.text, page |-> ev'.page]
          IN  /\ ev'.key \in DOMAIN notes_store
              /\ ev'.row \in 0..(Len(notes_store[ev'.key]) - 1)
              /\ notes_store' = Replaced(ev'.key, ev'.row, note)
              /\ Len(notes_list') = Len(notes_store[ev'.key])
              /\ notes_list'[ev'.row + 1] = row_text(build, note)]_vars

\* C5: edit_note of the in-bounds entry i with the new values (p2, t2)
\* replaces exactly that entry with {page: p2 brought into 1..pageCount,
\* text: t2 without its leading and trailing whitespace}; the length of the
\* list, its other entries and the other keys stay, and the list shown has
\* the replacement in row i.
C5_EditReplaces ==
    [][ev'.op = "edit_note" /\ ev'.outcome = "edited" =>
          LET note == [text |-> strip(ev'.text),
                       page |-> Clamped(ev'.page, FilePages(current_pdf_path))]
          IN  /\ ev'.key \in DOMAIN notes_store
              /\ ev'.row \in 0..(Len(notes_store[ev'.key]) - 1)
              /\ notes_store' = Replaced(ev'.key, ev'.row, note)
              /\ Len(notes_list') = Len(notes_store[ev'.key])
              /\ notes_list'[ev'.row + 1] = row_text(build, note)]_vars

\* the first of two notes was edited and the second is still what add_note
\* stored
C5_Witness ==
    /\ ev.op = "edit_note" /\ ev.outcome = "edited"
    /\ ev.row = 0
    /\ ev.key \in DOMAIN notes_store
    /\ Len(notes_store[ev.key]) = 2
    /\ notes_store[ev.key][1] # notes_store[ev.key][2]
    /\ Len(notes_list) = 2

\* no key of the map d has an empty list
NoEmptyList(d) == \A k \in DOMAIN d : d[k] # <<>>

\* the notes map in the configuration file, empty when the file has none
PersistedNotes == IF disk.notes = <<>> THEN EmptyDict ELSE disk.notes[1]

\* C6: remove_note of the in-bounds entry i deletes exactly that entry, and
\* deletes the key when the list becomes empty; no key of notes_store or of
\* the persisted notes ever has an empty list.
C6_RemoveDeletes ==
    [][/\ NoEmptyList(notes_store') /\ NoEmptyList(PersistedNotes')
       /\ ev'.op = "remove_note" /\ ev'.outcome = "removed" =>
             LET key == ev'.key
                 i == ev'.row
                 old == notes_store[key]
             IN  /\ key \in DOMAIN notes_store
                 /\ i \in 0..(Len(old) - 1)
                 /\ \A k \in DOMAIN notes_store \ {key} :
                       k \in DOMAIN notes_store' /\ notes_store'[k] = notes_store[k]
                 /\ DOMAIN notes_store' \subseteq DOMAIN notes_store
                 /\ IF Len(old) = 1
                    THEN key \notin DOMAIN notes_store'
                    ELSE /\ key \in DOMAIN notes_store'
                         /\ Len(notes_store'[key]) = Len(old) - 1
                         /\ \A j \in 1..(Len(old) - 1) :
                               notes_store'[key][j] = IF j <= i THEN old[j] ELSE old[j + 1]]_vars

\* the only note of a key was removed and the key is gone, in memory and on disk
C6_Witness ==
    /\ ev.op = "remove_note" /\ ev.outcome = "removed"
    /\ ev.key \notin DOMAIN notes_store
    /\ ev.key \notin DOMAIN PersistedNotes
    /\ disk.notes # <<>>

\* C9: with a document open, add_note, edit_note, remove_note, on_note_clicked
\* and the listing all address notes_store under one key, the one
\* _get_store_key gives (the path relative to the root when there is one,
\* the absolute path otherwise).
C9_OneKey ==
    pdf_doc # 0 /\ current_pdf_path # None =>
        /\ (IF build = "dark" THEN add_note_key(State) ELSE current_pdf_path) = DocKey
        /\ (IF build = "dark" THEN lookup_key(State) ELSE current_pdf_path) = DocKey
        /\ (IF build = "dark" THEN listed_key(State) ELSE current_pdf_path) = DocKey

\* a root is set, the open document has notes under its absolute path only:
\* add_note would write under the relative key, the others read the absolute one
C9_Witness ==
    /\ build = "dark"
    /\ pdf_doc # 0 /\ root_folder # None
    /\ current_pdf_path \in DOMAIN notes_store
    /\ add_note_key(State) \notin DOMAIN notes_store
    /\ lookup_key(State) = current_pdf_path
    /\ listed_key(State) = current_pdf_path

\* C10: after every add_note, edit_note and remove_note (writes succeeding)
\* the notes in the configuration file equal notes_store, a file without notes
\* counting as the empty map.
C10_WriteThrough ==
    /\ PersistedNotes = notes_store
    /\ ev.outcome \in {"added", "edited", "removed"} => disk.notes = <<notes_store>>

\* a note was edited while another document also has notes, and the file holds
\* both lists
C10_Witness ==
    /\ ev.op = "edit_note" /\ ev.outcome = "edited"
    /\ Cardinality(DOMAIN notes_store) = 2
    /\ disk.notes = <<notes_store>>

-----------------------------------------------------------------------------
(* Status reporter properties, checked under SpecStatus *)

\* the status bar shows a page of the open document
ShowsPage == pdf_doc # 0 /\ status_label.kind = "Page"

\* C7 as stated: with the 42-page document open and the scroll maximum 100,
\* the status shows page 1 of 42 at scroll value 0 and page 21 of 42 at scroll
\* value 50.
C7_Page21AtHalf ==
    ShowsPage /\ FilePages(current_pdf_path) = 42 /\ vsb.maximum = 100 =>
        /\ status_label.total = 42
        /\ vsb.value = 0 => status_label.page = 1
        /\ vsb.value = 50 => status_label.page = 21

\* C7: with the 42-page document open and the scroll maximum 100, the status
\* shows page 1 of 42 at scroll value 0 and page 22 of 42 at scroll value 50
\* (floor(50 / 100 * 42) + 1).
C7_Page22AtHalf ==
    /\ ShowsPage /\ FilePages(current_pdf_path) = 42 /\ vsb.maximum = 100 =>
          /\ status_label.total = 42
          /\ vsb.value = 0 => status_label.page = 1
          /\ vsb.value = 50 => status_label.page = 22
    /\ ev.op = "scroll" /\ pdf_doc # 0 => status_label.kind = "Page"

\* the user scrolled the 42-page document to the middle
C7_Witness ==
    /\ ev.op = "scroll"
    /\ ShowsPage /\ FilePages(current_pdf_path) = 42
    /\ vsb = [value |-> 50, maximum |-> 100]
    /\ status_label.page = 22

\* C8: whenever the status shows a page of an open document with at least one
\* page, the page is within 1..pageCount, the total is pageCount, and the
\* page is floor(value / maximum * pageCount) + 1 unless that exceeds
\* pageCount.
C8_PageInRange ==
    ShowsPage =>
        LET total == FilePages(current_pdf_path)
        IN  /\ total >= 1
            /\ status_label.total = total
            /\ status_label.page \in 1..total
            /\ vsb.maximum > 0 =>
                  \E q \in 0..total :
                      /\ q * vsb.maximum <= vsb.value * total
                      /\ vsb.value * total < (q + 1) * vsb.maximum
                      /\ status_label.page = (IF q + 1 > total THEN total ELSE q + 1)
            /\ vsb.maximum = 0 => status_label.page = 1

\* the view is scrolled to the very end, where the formula alone would give
\* pageCount + 1
C8_Witness ==
    /\ ShowsPage
    /\ vsb.maximum = 100 /\ vsb.value = 100
    /\ status_label.page = FilePages(current_pdf_path)

-----------------------------------------------------------------------------
(* Load controller: failures, release of handles, checked under SpecLoad *)

\* C11: the poll tick that sees the pending document's status Error stops the
\* timer, releases the pending handle, clears the pending slot and shows the
\* user a message, on that tick.
C11_ErrorTickReports ==
    ev.op = "poll" /\ ev.status = "Error" =>
        /\ ~load_timer
        /\ docs[ev.doc].deleted
        /\ pending_doc = 0
        /\ dialog # NoMessage

\* a tick of the dark build saw Error: the slot is cleared, but the handle is
\* not released and nothing is shown
C11_Witness ==
    /\ build = "dark"
    /\ ev.outcome = "status_error"
    /\ ~load_timer /\ pending_doc = 0
    /\ ~docs[ev.doc].deleted
    /\ dialog = NoMessage

\* C12: a call of open_pdf in which load() raises shows an error dialog,
\* leaves pdf_doc and current_pdf_path as they were, does not leave the failed
\* handle in the pending slot and does not start the poll timer.
C12_LoadRaiseLeavesNothing ==
    [][ev'.outcome = "load_raised" =>
          /\ dialog' # NoMessage
          /\ pdf_doc' = pdf_doc
          /\ current_pdf_path' = current_pdf_path
          /\ pending_doc' # ev'.doc
          /\ load_timer' => load_timer]_vars

\* load() raised in the dark build: the failed handle is still the pending one
\* and no timer polls it
C12_Witness ==
    /\ build = "dark"
    /\ ev.outcome = "load_raised"
    /\ dialog # NoMessage
    /\ pending_doc = ev.doc
    /\ pending_path = docs[ev.doc].path
    /\ ~load_timer

\* C13: every handle that open_pdf replaced in the pending slot has been
\* released by the time the call returns.
C13_SupersededReleased == \A h \in superseded : docs[h].deleted

\* the classic build replaced a pending handle and never released it, although
\* the later request is installed
C13_Witness ==
    /\ build = "classic"
    /\ \E h \in superseded : ~docs[h].deleted /\ pdf_doc > h

\* C14: between handlers the current handle and the pending handle are never
\* the same one, and the current handle, if any, has status Ready and was not
\* released.
C14_CurrentReadyAndLive ==
    /\ pdf_doc \in 0 .. Len(docs) /\ pending_doc \in 0 .. Len(docs)
    /\ pdf_doc # 0 =>
          /\ pdf_doc # pending_doc
          /\ docs[pdf_doc].status = "Ready"
          /\ ~docs[pdf_doc].deleted
    /\ ev.outcome = "finalized" => ev.status = "Ready" /\ pdf_doc = ev.doc

\* a poll installed the second document in place of the first: the first is
\* released, the second is current, Ready and live
C14_Witness ==
    /\ pdf_doc = 2
    /\ docs[1].status = "Ready" /\ docs[1].deleted
    /\ docs[2].status = "Ready" /\ ~docs[2].deleted
    /\ pending_doc = 0
    /\ ev.op = "poll" /\ ev.outcome = "finalized"

-----------------------------------------------------------------------------
(* Note store: invalid rows and the fallback key, checked under SpecNotes *)

\* C15: edit_note or remove_note called with no note selected, or with a row
\* outside the stored list of the document's key, shows the user a message and
\* changes nothing: notes_store and the configuration file stay as they were
\* and no exception is raised.
C15_InvalidRowReported ==
    [][ev'.op \in {"edit_note", "remove_note"} /\ ev'.outcome \in {"ignored", "raised"} =>
          /\ dialog' # NoMessage
          /\ raised' = "none"
          /\ notes_store' = notes_store
          /\ disk' = disk]_vars

\* the dark build's edit_note ran on a document with notes and none selected:
\* nothing changed and nothing was shown
C15_Witness ==
    /\ build = "dark"
    /\ ev.op = "edit_note" /\ ev.outcome = "ignored"
    /\ pdf_doc # 0 /\ notes_list # <<>> /\ currentRow = -1
    /\ dialog = NoMessage

\* the entry the backward-compatible lookup is to use: the one under the
\* root-relative key when there is one, else the one under the absolute path
CompatKey ==
    IF get_store_key(current_pdf_path, root_folder) \in DOMAIN notes_store
    THEN get_store_key(current_pdf_path, root_folder)
    ELSE current_pdf_path

\* C17: in the dark build, with a document open and notes stored under its
\* relative key or its absolute path, the listing, edit_note, remove_note and
\* on_note_clicked all address the relative-key entry when it exists and the
\* absolute-path entry otherwise.
C17_CompatLookup ==
    [][build = "dark" /\ current_pdf_path # None =>
          /\ CompatKey \in DOMAIN notes_store =>
                lookup_key(State) = CompatKey /\ listed_key(State) = CompatKey
          /\ ev'.outcome \in {"edited", "removed", "jumped"} => ev'.key = CompatKey
          /\ ev'.outcome \in {"edited", "removed"} /\ CompatKey' \in DOMAIN notes_store' =>
                notes_list' = rows(build, notes_store'[CompatKey'])]_vars

\* a root is set, the notes are under the absolute path only, and edit_note
\* has just changed one of them there
C17_Witness ==
    /\ build = "dark"
    /\ ev.op = "edit_note" /\ ev.outcome = "edited"
    /\ root_folder # None
    /\ ev.key = current_pdf_path
    /\ get_store_key(current_pdf_path, root_folder) \notin DOMAIN notes_store
    /\ notes_list = rows(build, notes_store[current_pdf_path])

\* C18: clicking a note for page p on a document of n pages sets the scroll
\* value to floor((p - 1) / max(1, n - 1) * maximum): page 1 scrolls to 0 and
\* the last page to the maximum.
C18_ClickScrolls ==
    [][ev'.op = "on_note_clicked" /\ ev'.outcome = "jumped" =>
          LET page == notes_store[ev'.key][ev'.row + 1].page
              n == FilePages(current_pdf_path)
          IN  /\ vsb'.maximum = vsb.maximum
              /\ vsb'.value = ((page - 1) * vsb.maximum) \div (IF n - 1 < 1 THEN 1 ELSE n - 1)
              /\ page = 1 => vsb'.value = 0
              /\ page = n /\ n > 1 => vsb'.value = vsb.maximum]_vars

\* the dark build's click on a note for the last of 10 pages left the view at
\* 90 of 100
C18_Witness ==
    /\ build = "dark"
    /\ ev.op = "on_note_clicked" /\ ev.outcome = "jumped"
    /\ FilePages(current_pdf_path) = 10
    /\ notes_store[ev.key][ev.row + 1].page = 10
    /\ vsb = [value |-> 90, maximum |-> 100]

-----------------------------------------------------------------------------
(* Finalize, checked under SpecStored *)

\* the notes the list is to show for the current document
NotesOfCurrent ==
    LET key == IF build = "dark" THEN CompatKey ELSE current_pdf_path
    IN  IF key \in DOMAIN notes_store THEN notes_store[key] ELSE <<>>

-----------------------------------------------------------------------------
(* Cursor and timer bookkeeping, checked under SpecLoad *)

\* C19: in the dark build, whenever the poll timer is not running the
\* override-cursor depth is 0: every setOverrideCursor of open_pdf has been
\* matched by a restoreOverrideCursor.
C19_CursorBalanced == build = "dark" /\ ~load_timer => cursor = 0

\* a pending load was replaced, the later one was installed and the timer
\* stopped, and one wait cursor is still pushed
C19_Witness ==
    /\ build = "dark"
    /\ ~load_timer /\ pending_doc = 0
    /\ superseded # {}
    /\ pdf_doc # 0 /\ ev.outcome = "finalized"
    /\ cursor = 1

\* C20: whenever the pending slot is occupied between handlers, the poll timer
\* is running, so that the pending load is polled until it is finalized,
\* failed or replaced.
C20_PendingIsPolled == pending_doc # 0 => load_timer

\* the dark build holds a handle in the pending slot that no timer polls: its
\* load call raised
C20_Witness ==
    /\ build = "dark"
    /\ pending_doc # 0 /\ ~load_timer
    /\ docs[pending_doc].status = "Null" /\ ~docs[pending_doc].deleted
    /\ cursor = 0

-----------------------------------------------------------------------------
(* The notes list against the note store, checked under SpecNotes *)

\* the stored list that edit_note, remove_note and on_note_clicked address
AddressedNotes ==
    LET key == IF build = "dark" THEN lookup_key(State) ELSE current_pdf_path
    IN  dict_get(notes_store, key, <<>>)

\* C21: after every handler, with a document open, the rows of notes_list are
\* the rows of the stored list that edit_note, remove_note and on_note_clicked
\* address (same notes, same order, same length), and the selected row is an
\* index into that list; also after select_root with a document open.
C21_ListIsAddressedList ==
    current_pdf_path # None =>
        /\ notes_list = rows(build, AddressedNotes)
        /\ currentRow < Len(AddressedNotes)

\* the dark build after select_root with a document open: the rows shown are
\* those of one stored list and the handlers address another
C21_Witness ==
    /\ build = "dark"
    /\ ev.op = "select_root" /\ ev.outcome = "set"
    /\ current_pdf_path # None
    /\ notes_list # rows(build, AddressedNotes)
    /\ Len(notes_list) > Len(AddressedNotes)

\* the keys under which the current document's notes are listed, edited and removed
AddressedKeys ==
    IF build = "dark" THEN {listed_key(State), lookup_key(State)} ELSE {current_pdf_path}

\* C22: with a document open, every stored note that the listing, edit_note
\* and remove_note address was added while that same document (the same
\* absolute path) was open, whatever open_pdf, add_note, edit_note,
\* remove_note and select_root steps came before.
C22_NotesIsolated ==
    current_pdf_path # None =>
        \A k \in AddressedKeys \cap DOMAIN owners :
            \A i \in 1 .. Len(owners[k]) : owners[k][i].path = current_pdf_path

\* the dark build lists for the open document a note that was added while a
\* document with another absolute path was open
C22_Witness ==
    /\ build = "dark"
    /\ ev.op = "open_pdf"
    /\ current_pdf_path # None
    /\ listed_key(State) \in DOMAIN owners
    /\ owners[listed_key(State)][1].path # current_pdf_path
    /\ notes_list = rows(build, notes_store[listed_key(State)])

\* C23: an add_note that stores a note leaves the list shown for the current
\* document equal to the list shown before it with the row of the new note
\* appended; also when the earlier notes are stored under the absolute path
\* and a root folder is set.
C23_AddKeepsShown ==
    [][ev'.op = "add_note" /\ ev'.outcome = "added" =>
          LET note == [text |-> strip(ev'.text),
                       page |-> Clamped(ev'.page, FilePages(current_pdf_path))]
          IN  notes_list' = Append(notes_list, row_text(build, note))]_vars

\* the dark build after an add_note with a root folder set: the document has a
\* note under its absolute path, the new note is stored under the relative
\* key, and only the new one is shown
C23_Witness ==
    /\ build = "dark"
    /\ ev.op = "add_note" /\ ev.outcome = "added"
    /\ root_folder # None
    /\ current_pdf_path \in DOMAIN notes_store
    /\ ev.key # current_pdf_path /\ ev.key \in DOMAIN notes_store
    /\ Len(notes_store[ev.key]) = 1
    /\ notes_list = rows(build, notes_store[ev.key])

====
